---- MODULE Spec2Model ----
(***************************************************************************)
(* LiteratureRetriever: the harvest / schedule / de-duplicate / persist    *)
(* pipeline.                                                               *)
(*   app/models/paper.py       Paper                                       *)
(*   app/services/storage.py   SQLiteStorage (papers table, upsert, search)*)
(*   app/services/scheduler.py Scheduler (interval, periodic loop,         *)
(*                             run_once, run_once_async, status)           *)
(*   app/crawler/*.py          NatureCrawler, NatureRSSCrawler             *)
(*   app/api/routes.py         the callers                                 *)
(*                                                                         *)
(* Text is a sequence of code points, so that LIKE's ASCII case folding    *)
(* and SQLite's BINARY collation are computed and not assumed.  An         *)
(* optional value is None (<<>>) or Some(v) (<<v>>).                       *)
(***************************************************************************)
EXTENDS Integers, Sequences, FiniteSets, TLC

-----------------------------------------------------------------------------
(* Bounds of the model.                                                    *)

\* longest batch a direct caller hands to upsert_papers
MaxBatch == 2
\* last tick of the wall clock (CURRENT_TIMESTAMP, utcnow)
MaxClock == 1
\* number of run_once_async calls each request handler makes
MaxAsyncCalls == 2
\* most fields of a schedule expression the configuration is drawn with
MaxFields == 5
\* most elements on a listing page or items in a feed
MaxCards == 2

-----------------------------------------------------------------------------
(* Optional values and text.                                               *)

None == <<>>
Some(v) == <<v>>
IsNone(o) == o = <<>>
Val(o) == o[1]

\* Python truthiness of an Optional[list] / Optional[dict] / Optional[datetime]:
\* None, [] and {} are falsy; a datetime is always truthy.
TruthySeq(o) == (~IsNone(o)) /\ Val(o) # <<>>
TruthyObj(o) == ~IsNone(o)

\* ASCII lower-casing, as SQLite's LIKE folds case (A-Z only).
Lower(c) == IF c \in 65..90 THEN c + 32 ELSE c

Tail2(s) == SubSeq(s, 2, Len(s))

\* memcmp order of two texts (SQLite BINARY collation): a < b.
RECURSIVE TextLess(_, _)
TextLess(a, b) ==
    IF b = <<>> THEN FALSE
    ELSE IF a = <<>> THEN TRUE
    ELSE IF a[1] # b[1] THEN a[1] < b[1]
    ELSE TextLess(Tail2(a), Tail2(b))

\* SQL LIKE: % matches any run, _ any one character, the rest case-folded.
RECURSIVE LikeMatch(_, _)
LikeMatch(pat, s) ==
    IF pat = <<>> THEN s = <<>>
    ELSE IF pat[1] = 37
         THEN LikeMatch(Tail2(pat), s) \/ (s # <<>> /\ LikeMatch(pat, Tail2(s)))
    ELSE IF pat[1] = 95
         THEN s # <<>> /\ LikeMatch(Tail2(pat), Tail2(s))
    ELSE s # <<>> /\ Lower(pat[1]) = Lower(s[1]) /\ LikeMatch(Tail2(pat), Tail2(s))

\* column LIKE pattern, on a nullable column: NULL LIKE x is NULL, not true.
ColLike(col, pat) == (~IsNone(col)) /\ LikeMatch(pat, Val(col))

\* str.join
RECURSIVE Join(_, _)
Join(sep, parts) ==
    IF parts = <<>> THEN <<>>
    ELSE IF Len(parts) = 1 THEN parts[1]
    ELSE parts[1] \o sep \o Join(sep, Tail2(parts))

\* zero-padded decimal of n in w digits
RECURSIVE Digits(_, _)
Digits(n, w) == IF w = 0 THEN <<>> ELSE Digits(n \div 10, w - 1) \o <<48 + (n % 10)>>

\* datetime.isoformat() of a naive datetime at midnight: YYYY-MM-DDT00:00:00
IsoFormat(dt) ==
    Digits(dt.year, 4) \o <<45>> \o Digits(dt.month, 2) \o <<45>> \o Digits(dt.day, 2)
        \o <<84, 48, 48, 58, 48, 48, 58, 48, 48>>

\* json.dumps of a flat dict of strings, given as its items in order
JsonItem(kv) == <<34>> \o kv[1] \o <<34, 58, 32, 34>> \o kv[2] \o <<34>>
JsonDumps(d) == <<123>> \o Join(<<44, 32>>, [i \in 1..Len(d) |-> JsonItem(d[i])]) \o <<125>>

-----------------------------------------------------------------------------
(* Paper (app/models/paper.py) and the papers the model draws from.         *)

Paper(title, url, doi, source, published_at, authors, abstract, journal, extras) ==
    [title |-> title, url |-> url, doi |-> doi, source |-> source,
     published_at |-> published_at, authors |-> authors, abstract |-> abstract,
     journal |-> journal, extras |-> extras]

Date(y, m, d) == [year |-> y, month |-> m, day |-> d]

\* "Solar", "cell", "SOLAR dye", "Ann", "Bo", "q", "s"
TxtSolar == <<83, 111, 108, 97, 114>>
TxtCell == <<99, 101, 108, 108>>
TxtSolarDye == <<83, 79, 76, 65, 82, 32, 100, 121, 101>>
TxtAnn == <<65, 110, 110>>
TxtBo == <<66, 111>>
TxtQ == <<113>>
TxtS == <<115>>

\* u1, first harvest: every field present
PaperA1 == Paper(Some(TxtSolar), Some("u1"), Some("10.1/a"), Some("nature"),
                 Some(Date(2024, 2, 1)), Some(<<TxtAnn, TxtBo>>), Some(TxtCell),
                 Some("Nature"), Some(<< <<TxtQ, TxtS>> >>))
\* u1 again: another title and source, every optional field absent
PaperA2 == Paper(Some(TxtCell), Some("u1"), None, Some("nature-portfolio"),
                 None, None, None, None, None)
\* u2: a later date, an empty author list and an empty extras dict
PaperB1 == Paper(Some(TxtSolarDye), Some("u2"), None, Some("nature-portfolio"),
                 Some(Date(2024, 10, 1)), Some(<<>>), None, Some("Nature"), Some(<<>>))
\* u3: no publish date
PaperC1 == Paper(Some(TxtCell), Some("u3"), Some("10.1/c"), Some("nature"),
                 None, Some(<<TxtAnn>>), Some(TxtSolarDye), None, None)
\* u3, malformed: title is None
PaperM == Paper(None, Some("u3"), None, Some("nature"), None, None, None, None, None)

\* u2 with an empty title, as fetch_search builds it from a link without text
PaperE == Paper(Some(<<>>), Some("u2"), None, Some("nature"), None, None, None,
                Some("Nature"), Some(<< <<TxtQ, TxtS>> >>))

PaperPool == {PaperA1, PaperA2, PaperB1, PaperC1, PaperM}

Urls == {p.url : p \in PaperPool}

RECURSIVE SeqsUpTo(_, _)
SeqsUpTo(S, n) ==
    IF n = 0 THEN {<<>>}
    ELSE LET shorter == SeqsUpTo(S, n - 1)
         IN shorter \cup {Append(s, x) : s \in {t \in shorter : Len(t) = n - 1}, x \in S}

Batches == SeqsUpTo(PaperPool, MaxBatch)

-----------------------------------------------------------------------------
(* The papers table (SCHEMA) and the statements of SQLiteStorage.          *)
(* A database is [rows, seq]: the rows of papers and the AUTOINCREMENT     *)
(* counter sqlite_sequence keeps for it.                                   *)

EmptyDb == [rows |-> {}, seq |-> 0]

\* the parameter tuple upsert_papers binds for one Paper
Params(p) ==
    [title |-> p.title,
     url |-> p.url,
     doi |-> p.doi,
     source |-> p.source,
     published_at |-> IF TruthyObj(p.published_at)
                       THEN Some(IsoFormat(Val(p.published_at))) ELSE None,
     authors |-> IF TruthySeq(p.authors)
                  THEN Some(Join(<<44, 32>>, Val(p.authors))) ELSE None,
     abstract |-> p.abstract,
     journal |-> p.journal,
     extras |-> IF TruthySeq(p.extras) THEN Some(JsonDumps(Val(p.extras))) ELSE None]

\* title, url and source are declared NOT NULL
NotNullViolated(v) == IsNone(v.title) \/ IsNone(v.url) \/ IsNone(v.source)

ConflictNever(rows, v) == {}
\* ON CONFLICT(url): the rows the UNIQUE constraint on url collides with
ConflictRows(rows, v) == {r \in rows : r.url = v.url}

InsertedRow(id, v, now) ==
    [id |-> id, title |-> v.title, url |-> v.url, doi |-> v.doi, source |-> v.source,
     published_at |-> v.published_at, authors |-> v.authors, abstract |-> v.abstract,
     journal |-> v.journal, extras |-> v.extras, created_at |-> now]

Keep(new, old) == IF IsNone(new) THEN old ELSE new
UpdatedRowCoalesce(r, v) ==
    [r EXCEPT !.title = v.title, !.doi = Keep(v.doi, r.doi), !.source = v.source,
              !.published_at = Keep(v.published_at, r.published_at),
              !.authors = Keep(v.authors, r.authors),
              !.abstract = Keep(v.abstract, r.abstract),
              !.journal = Keep(v.journal, r.journal),
              !.extras = Keep(v.extras, r.extras)]
\* DO UPDATE SET title=excluded.title, ..., extras=excluded.extras
UpdatedRow(r, v) ==
    [r EXCEPT !.title = v.title, !.doi = v.doi, !.source = v.source,
              !.published_at = v.published_at, !.authors = v.authors,
              !.abstract = v.abstract, !.journal = v.journal, !.extras = v.extras]

ExecuteReplace(db, v, now) ==
    [rows |-> (db.rows \ ConflictRows(db.rows, v))
                  \cup {InsertedRow(db.seq + 1, v, now)},
     seq |-> db.seq + 1]
\* one INSERT ... ON CONFLICT(url) DO UPDATE on a database, constraints satisfied
ExecuteUpsert(db, v, now) ==
    LET hit == ConflictRows(db.rows, v)
    IN IF hit = {}
       THEN [rows |-> db.rows \cup {InsertedRow(db.seq + 1, v, now)},
             seq |-> db.seq + 1]
       ELSE [rows |-> (db.rows \ hit) \cup {UpdatedRow(r, v) : r \in hit},
             seq |-> db.seq]

RecordAtReversed(batch, i) == batch[Len(batch) + 1 - i]
\* for p in papers: the i-th record the loop executes
RecordAt(batch, i) == batch[i]

UpsertReturnDistinct(batch) == Cardinality({batch[i].url : i \in 1..Len(batch)})
\* return len(papers)
UpsertReturn(batch) == Len(batch)

CoalesceHigh(col) == IF IsNone(col) THEN <<126>> ELSE Val(col)
\* COALESCE(published_at, '')
CoalescePublished(col) == IF IsNone(col) THEN <<>> ELSE Val(col)

OrderedBeforeIdAscending(r1, r2) ==
    LET k1 == CoalescePublished(r1.published_at)
        k2 == CoalescePublished(r2.published_at)
    IN TextLess(k2, k1) \/ (k1 = k2 /\ r1.id < r2.id)
\* ORDER BY COALESCE(published_at, '') DESC, id DESC: r1 comes before r2
OrderedBefore(r1, r2) ==
    LET k1 == CoalescePublished(r1.published_at)
        k2 == CoalescePublished(r2.published_at)
    IN TextLess(k2, k1) \/ (k1 = k2 /\ r1.id > r2.id)

RECURSIVE OrderBy(_)
OrderBy(rows) ==
    IF rows = {} THEN <<>>
    ELSE LET first == CHOOSE r \in rows : \A o \in rows \ {r} : OrderedBefore(r, o)
         IN <<first>> \o OrderBy(rows \ {first})

\* if query: AND (title LIKE ? OR abstract LIKE ? OR authors LIKE ?), like = %query%
QueryMatches(r, query) ==
    query = <<>> \/
    LET like == <<37>> \o query \o <<37>>
    IN ColLike(r.title, like) \/ ColLike(r.abstract, like) \/ ColLike(r.authors, like)

\* if source: AND source = ?   (source is Optional[str]; None and "" are falsy)
SourceMatches(r, source) ==
    (IsNone(source) \/ Val(source) = "") \/ r.source = source

Min2(a, b) == IF a < b THEN a ELSE b

\* SQLiteStorage.search_papers
SearchPapers(rows, query, source, limit, offset) ==
    LET hits == {r \in rows : QueryMatches(r, query) /\ SourceMatches(r, source)}
        ordered == OrderBy(hits)
        items == SubSeq(ordered, offset + 1, Min2(Len(ordered), offset + limit))
    IN [items |-> items, count |-> Len(items), offset |-> offset, limit |-> limit]

-----------------------------------------------------------------------------
(* State.                                                                  *)

\* direct callers of upsert_papers (a script, a test): w1 and w2 hand over any
\* batch, w3 one record at a time, w4 batches that hold unusable records
Clients == {"w1", "w2", "w3", "w4"}
\* request handlers calling run_once_async
Handlers == {"h1", "h2"}
\* the threads run_once_async starts, in the order their ids are taken
Jobs == {"j1", "j2"}
JobRank(j) == IF j = "j1" THEN 1 ELSE 2
\* request handlers calling run_once directly (POST /crawl/run?sync=1)
SyncCallers == {"s1"}
\* the threads start() creates for _run_loop
LoopThreads == {"p1", "p2"}
\* callers of start()
Starters == {"a1", "a2"}
\* request handlers (trigger_crawl, crawl_status) calling get_scheduler
Getters == {"g1", "g2", "g3"}
\* request handlers calling status()
StatusCallers == {"q1"}
\* contexts that execute run_once
Runners == Jobs \cup SyncCallers \cup LoopThreads
\* everything that calls upsert_papers
Procs == Clients \cup Runners

VARIABLES
    db,          \* the committed database: [rows, seq]
    txn,         \* the open write transaction: [owner, work]
    clock,       \* wall clock
    ucall,       \* per caller, its upsert_papers call: [pc, batch, idx, ret]
    calls,       \* per request handler, the run_once_async calls made so far
    search_out,  \* what search_papers returned, until the next call of the API
    last_applied \* history: per url, the record committed upserts applied last,
                 \* after the last different one they applied before it

storageVars == <<db, txn, clock, ucall, calls, search_out, last_applied>>

NoCall == [pc |-> "idle", batch |-> <<>>, idx |-> 0, ret |-> 0]
NoTxn == [owner |-> "none", work |-> EmptyDb]

InitStorage ==
    /\ db = EmptyDb
    /\ txn = NoTxn
    /\ clock = 0
    /\ ucall = [p \in Procs |-> NoCall]
    /\ calls = [h \in Handlers |-> 0]
    /\ search_out = None
    /\ last_applied = [u \in Urls |-> <<>>]

\* time passes
Tick ==
    /\ clock < MaxClock
    /\ clock' = clock + 1
    /\ UNCHANGED <<db, txn, ucall, calls, search_out, last_applied>>

-----------------------------------------------------------------------------
(* SQLiteStorage.upsert_papers, one step per statement.  "with conn:" is   *)
(* one transaction: the first INSERT takes the database's write lock, the  *)
(* end of the block commits, an exception rolls back and propagates.       *)

\* upsert_papers(papers) is called by p
BeginUpsert(p, batch) ==
    ucall' = [ucall EXCEPT ![p] =
        IF batch = <<>>
        THEN [pc |-> "returned", batch |-> batch, idx |-> 0, ret |-> 0]
        ELSE [pc |-> "exec", batch |-> batch, idx |-> 1, ret |-> 0]]

\* history h of a url after the records of batch are applied in input order
Applied(h, p) ==
    IF h # <<>> /\ h[Len(h)] = p THEN h
    ELSE IF h = <<>> THEN <<p>> ELSE <<h[Len(h)], p>>
RECURSIVE AppliedAll(_, _, _)
AppliedAll(h, batch, u) ==
    IF batch = <<>> THEN h
    ELSE AppliedAll(IF batch[1].url = u THEN Applied(h, batch[1]) ELSE h, Tail2(batch), u)

\* conn.execute(INSERT ... ON CONFLICT ...) for the next record of the batch
UpsertExecute(p) ==
    /\ ucall[p].pc = "exec"
    /\ ucall[p].idx <= Len(ucall[p].batch)
    /\ txn.owner \in {"none", p}
    /\ LET work == IF txn.owner = p THEN txn.work ELSE db
           v == Params(RecordAt(ucall[p].batch, ucall[p].idx))
       IN IF NotNullViolated(v)
          THEN \* sqlite3.IntegrityError: rollback, the exception leaves the call
               /\ txn' = NoTxn
               /\ ucall' = [ucall EXCEPT ![p].pc = "raised"]
          ELSE /\ txn' = [owner |-> p, work |-> ExecuteUpsert(work, v, clock)]
               /\ ucall' = [ucall EXCEPT ![p].idx = @ + 1]
    /\ UNCHANGED <<db, clock, calls, search_out, last_applied>>

\* the end of the with block commits; conn.close(); return len(papers)
UpsertCommit(p) ==
    /\ ucall[p].pc = "exec"
    /\ ucall[p].idx > Len(ucall[p].batch)
    /\ txn.owner = p
    /\ db' = txn.work
    /\ txn' = NoTxn
    /\ ucall' = [ucall EXCEPT ![p].pc = "returned",
                              ![p].ret = UpsertReturn(ucall[p].batch)]
    /\ last_applied' = [u \in Urls |-> AppliedAll(last_applied[u], ucall[p].batch, u)]
    /\ UNCHANGED <<clock, calls, search_out>>

\* the write lock is held by another connection for the whole busy timeout:
\* sqlite3.OperationalError (database is locked)
UpsertBusy(p) ==
    /\ ucall[p].pc = "exec"
    /\ txn.owner \notin {"none", p}
    /\ ucall' = [ucall EXCEPT ![p].pc = "raised"]
    /\ UNCHANGED <<db, txn, clock, calls, search_out, last_applied>>

\* a storage fault inside the transaction (disk I/O error, connection lost):
\* the with block rolls back and the exception propagates
UpsertFault(p) ==
    /\ ucall[p].pc = "exec"
    /\ txn.owner = p
    /\ txn' = NoTxn
    /\ ucall' = [ucall EXCEPT ![p].pc = "raised"]
    /\ UNCHANGED <<db, clock, calls, search_out, last_applied>>

-----------------------------------------------------------------------------
(* Direct clients of the storage API.                                      *)

Queries == {<<>>, <<115, 111, 108>>, <<67, 69, 76, 76>>}
SourceFilters == {None, Some(""), Some("nature"), Some("nature-portfolio")}
Limits == {50}
Offsets == {0}

\* the batches of w4 hold unusable records (PaperE, PaperM)
BatchesOf(c) ==
    IF c \in {"w1", "w2"} THEN Batches
    ELSE IF c = "w4" THEN SeqsUpTo({PaperA1, PaperB1, PaperE, PaperM}, MaxBatch)
    ELSE {b \in Batches : Len(b) = 1}

\* a client calls upsert_papers(batch)
ClientUpsert(c) ==
    /\ ucall[c].pc = "idle"
    /\ \E batch \in BatchesOf(c) : BeginUpsert(c, batch)
    /\ search_out' = None
    /\ UNCHANGED <<db, txn, clock, calls, last_applied>>

\* the client has taken the call's result or exception
ClientDone(c) ==
    /\ ucall[c].pc \in {"returned", "raised"}
    /\ ucall' = [ucall EXCEPT ![c] = NoCall]
    /\ UNCHANGED <<db, txn, clock, calls, search_out, last_applied>>

ReadViewDirty(d, t) == IF t.owner = "none" THEN d.rows ELSE t.work.rows
\* the rows a SELECT on another connection reads while the write transaction
\* t is open on the database d: the committed ones
ReadView(d, t) == d.rows

\* list_papers -> storage.search_papers(query=q, source=source, limit, offset),
\* on its own connection, q among queries and source among sources.  dirty
\* records that the SELECT ran while an open transaction held changes not yet
\* committed.
SearchFrom(queries, sources) ==
    /\ \E q \in queries, s \in sources, l \in Limits, o \in Offsets :
          search_out' = Some([query |-> q, source |-> s,
                              res |-> SearchPapers(ReadView(db, txn), q, s, l, o),
                              dirty |-> (txn.owner # "none" /\ txn.work.rows # db.rows)])
    /\ UNCHANGED <<db, txn, clock, ucall, calls, last_applied>>

ClientSearch == SearchFrom(Queries, SourceFilters)

-----------------------------------------------------------------------------
(* Scheduler._cron_to_interval_seconds: the interval of the periodic loop, *)
(* derived from the configured schedule expression.                        *)

\* str.split() separates on runs of whitespace (code points 9..13 and 32):
\* the length of the field s begins with
RECURSIVE WordLen(_)
WordLen(s) ==
    IF s = <<>> \/ s[1] \in {9, 10, 11, 12, 13, 32} THEN 0 ELSE 1 + WordLen(Tail2(s))

\* str.split(): the whitespace-separated fields, none of them empty
RECURSIVE Split(_)
Split(s) ==
    IF s = <<>> THEN <<>>
    ELSE IF WordLen(s) = 0 THEN Split(Tail2(s))
    ELSE <<SubSeq(s, 1, WordLen(s))>> \o Split(SubSeq(s, WordLen(s) + 1, Len(s)))

\* str.startswith
StartsWith(s, pre) == Len(s) >= Len(pre) /\ SubSeq(s, 1, Len(pre)) = pre

\* the digits of an int() literal: decimal digits, single underscores between
RECURSIVE DigitsValid(_)
DigitsValid(s) ==
    /\ s # <<>>
    /\ s[1] \in 48..57
    /\ \/ Len(s) = 1
       \/ DigitsValid(Tail2(s))
       \/ Len(s) >= 3 /\ s[2] = 95 /\ DigitsValid(SubSeq(s, 3, Len(s)))

RECURSIVE DigitsValue(_, _)
DigitsValue(s, acc) ==
    IF s = <<>> THEN acc
    ELSE IF s[1] = 95 THEN DigitsValue(Tail2(s), acc)
    ELSE DigitsValue(Tail2(s), 10 * acc + (s[1] - 48))

\* int(text): Some(n), or None where int raises ValueError.  An optional sign,
\* then the digits (the text comes out of split and has no whitespace).
ParseInt(s) ==
    LET signed == s # <<>> /\ s[1] \in {43, 45}
        body == IF signed THEN Tail2(s) ELSE s
    IN IF DigitsValid(body)
       THEN Some(IF signed /\ s[1] = 45 THEN 0 - DigitsValue(body, 0)
                 ELSE DigitsValue(body, 0))
       ELSE None

\* what the derivation returned
ReturnedValue(v) == [kind |-> "returned", value |-> v]

\* the exception the try block of _cron_to_interval_seconds ends with, if any:
\* None has no split (AttributeError), no field (IndexError), int() (ValueError)
CronFault(cron_expr) ==
    IF IsNone(cron_expr) THEN "AttributeError"
    ELSE IF Split(Val(cron_expr)) = <<>> THEN "IndexError"
    ELSE LET minute_field == Split(Val(cron_expr))[1]
         IN IF StartsWith(minute_field, <<42, 47>>)
               /\ IsNone(ParseInt(SubSeq(minute_field, 3, Len(minute_field))))
            THEN "ValueError" ELSE "none"

\* Scheduler._cron_to_interval_seconds(cron_expr); except Exception: pass
\* catches each of the three faults, and the default is returned
CronToIntervalSeconds(cron_expr) ==
    LET fault == CronFault(cron_expr)
    IN IF fault # "none"
       THEN ReturnedValue(30 * 60)
       ELSE LET minute_field == Split(Val(cron_expr))[1]
            IN IF StartsWith(minute_field, <<42, 47>>)
               THEN ReturnedValue(
                        Val(ParseInt(SubSeq(minute_field, 3, Len(minute_field)))) * 60)
               ELSE ReturnedValue(30 * 60)

\* "*/30 * * * *", the default of SCHEDULER_CRON
TxtDefaultCron == <<42, 47, 51, 48, 32, 42, 32, 42, 32, 42, 32, 42>>

\* SCHEDULER_CRON: missing (None), or fields separated by one blank ("" for
\* none), the fields being "*/15", "*/5", "*", "*/x", "*/", "3", "*/0", "*/-1"
CronInputs ==
    LET tokens == {<<42, 47, 49, 53>>, <<42, 47, 53>>, <<42>>, <<42, 47, 120>>,
                   <<42, 47>>, <<51>>, <<42, 47, 48>>, <<42, 47, 45, 49>>}
    IN {None} \cup {Some(Join(<<32>>, fs)) : fs \in SeqsUpTo(tokens, MaxFields)}

\* the while loop of _run_loop that sleeps, run to its end from slept = 0:
\* slices of min(5, interval - slept) while slept < interval, that is the full
\* slices of 5 and then the rest; slept is their sum
SleepTotal(interval_s) ==
    LET slices == (interval_s + 4) \div 5
    IN IF interval_s <= 0 THEN 0
       ELSE 5 * (slices - 1) + Min2(5, interval_s - 5 * (slices - 1))

-----------------------------------------------------------------------------
(* Scheduler (app/services/scheduler.py).                                  *)

VARIABLES
    job_lock,           \* _job_lock: "free" or the handler holding it
    job_running,        \* _job_running
    last_run_at,        \* None or Some(time)
    last_result_count,
    handler,            \* per request handler, its run_once_async call: [pc, ret]
    run,                \* per execution context, its run_once: [pc, nat, rss]
    last_exit,          \* history: how the last job thread's run_once left
    cron_expr,          \* app.config["SCHEDULER_CRON"]: None or Some(text)
    interval,           \* self.interval, as the call that derives it left it
    stop_event,         \* self.stop_event is set
    thread,             \* self.thread: "none" or a loop thread
    loop,               \* per loop thread, its _run_loop: [pc, slept, after]
    starter,            \* per caller of start(), its call: [pc, ret]
    sync,               \* per synchronous trigger, its request: [pc, result, items]
    status,             \* per caller of status(), its call and what it read
    at_by,              \* history: the context that wrote last_run_at last
    same,               \* history: last_result_count comes from that same run
    fetch_in,           \* a fetch call of a crawler: its arguments and the network
    fetch_out,          \* what that fetch call did
    extensions,         \* app.extensions["literature_scheduler"]: 0 while absent,
                        \* else the number of the Scheduler instance it holds
    instances,          \* the Scheduler instances constructed so far, in order:
                        \* per instance, whether start() has started its loop
    getter              \* per caller of get_scheduler, its call: [pc, ret]

\* the single-flight and run state of the Scheduler
runVars == <<job_lock, job_running, last_run_at, last_result_count, handler, run,
             last_exit>>
\* what no step of run_once or run_once_async touches
extVars == <<cron_expr, interval, stop_event, thread, loop, starter, sync,
             fetch_in, fetch_out, extensions, instances, getter>>
\* what the two writes of run_once touch besides the fields themselves
snapVars == <<status, at_by, same>>

schedVars == <<job_lock, job_running, last_run_at, last_result_count, handler, run,
               last_exit, cron_expr, interval, stop_event, thread, loop, starter,
               sync, status, at_by, same, fetch_in, fetch_out,
               extensions, instances, getter>>
vars == <<db, txn, clock, ucall, calls, search_out, last_applied,
          job_lock, job_running, last_run_at, last_result_count, handler, run,
          last_exit, cron_expr, interval, stop_event, thread, loop, starter,
          sync, status, at_by, same, fetch_in, fetch_out,
          extensions, instances, getter>>

\* what one fetcher call did: not called, raised, or returned papers
NotCalled == [kind |-> "not_called", papers |-> <<>>]
Raised == [kind |-> "raised", papers |-> <<>>]
Returned(papers) == [kind |-> "returned", papers |-> papers]

NoRun == [pc |-> "idle", nat |-> NotCalled, rss |-> NotCalled]

NoLoop == [pc |-> "none", slept |-> 0, after |-> "none"]

\* the fields of a Scheduler that __init__ sets to fixed values, in an
\* application whose registry holds no Scheduler yet
InitFields ==
    /\ job_lock = "free"
    /\ job_running = FALSE
    /\ last_run_at = None
    /\ last_result_count = 0
    /\ handler = [h \in Handlers |-> [pc |-> "idle", ret |-> "none"]]
    /\ run = [r \in Runners |-> NoRun]
    /\ last_exit = "none"
    /\ stop_event = FALSE
    /\ thread = "none"
    /\ loop = [t \in LoopThreads |-> NoLoop]
    /\ starter = [a \in Starters |-> [pc |-> "idle", ret |-> "none"]]
    /\ sync = [c \in SyncCallers |-> [pc |-> "idle", result |-> "none", items |-> 0]]
    /\ status = [q \in StatusCallers |->
                    [pc |-> "idle", at |-> None, count |-> 0, src |-> "none",
                     live |-> FALSE, match |-> TRUE]]
    /\ at_by = "none"
    /\ same = TRUE
    /\ extensions = 0
    /\ instances = <<>>
    /\ getter = [g \in Getters |-> [pc |-> "idle", ret |-> 0]]

\* a Scheduler constructed under the default configuration
InitScheduler ==
    /\ InitFields
    /\ cron_expr = Some(TxtDefaultCron)
    /\ interval = CronToIntervalSeconds(Some(TxtDefaultCron))
    /\ fetch_in = None
    /\ fetch_out = None

Init == InitStorage /\ InitScheduler

\* NatureCrawler.fetch_search: raises on a network fault, else returns its cards
NatureOutcomes == {Raised, Returned(<<>>), Returned(<<PaperA1>>)}
\* NatureRSSCrawler.fetch_latest: title and link are truthy in what it returns
RssOutcomes == {Raised, Returned(<<>>), Returned(<<PaperB1>>), Returned(<<PaperA2>>)}

CollectedOneTry(nat, rss) ==
    IF nat.kind = "raised" \/ rss.kind = "raised" THEN <<>>
    ELSE nat.papers \o rss.papers
\* papers after the two try/except blocks of run_once: a fetcher that raised
\* adds nothing, the other one's records stay
Collected(nat, rss) == nat.papers \o rss.papers

\* run_once up to the call of upsert_papers: get_storage, the config reads and
\* the fetches touch nothing the other contexts see.  The search answers with
\* one of nats; FEEDS is configured or not as feedss says.
RunFetchFrom(r, nats, feedss) ==
    /\ run[r].pc = "start"
    /\ \/ \* get_storage raises (the database cannot be opened)
          /\ run' = [run EXCEPT ![r].pc = "raised"]
          /\ UNCHANGED ucall
       \/ \E nat \in nats, feeds \in feedss :
          \E rss \in IF feeds THEN RssOutcomes ELSE {NotCalled} :
             /\ run' = [run EXCEPT ![r] = [pc |-> "upsert", nat |-> nat, rss |-> rss]]
             /\ BeginUpsert(r, Collected(nat, rss))
    /\ UNCHANGED <<db, txn, clock, calls, search_out, last_applied,
                   job_lock, job_running, last_run_at, last_result_count, handler,
                   last_exit, extVars, snapVars>>

\* the answers a run of context r is followed under: every one for an on-demand
\* job; for the periodic loop and the synchronous trigger FEEDS is empty, and
\* for the loop the search either fails or yields one card
RunFetch(r) ==
    RunFetchFrom(r,
                 IF r \in LoopThreads THEN {Raised, Returned(<<PaperA1>>)}
                 ELSE NatureOutcomes,
                 IF r \in Jobs THEN BOOLEAN ELSE {FALSE})

\* self.last_run_at = datetime.utcnow().isoformat()
RunSetLastRunAt(r) ==
    /\ run[r].pc = "upsert"
    /\ ucall[r].pc = "returned"
    /\ last_run_at' = Some(clock)
    /\ run' = [run EXCEPT ![r].pc = "set_count"]
    /\ at_by' = r
    /\ same' = FALSE
    /\ UNCHANGED <<storageVars, job_lock, job_running, last_result_count, handler,
                   last_exit, extVars, status>>

\* self.last_result_count = count; return count
RunSetCount(r) ==
    /\ run[r].pc = "set_count"
    /\ last_result_count' = ucall[r].ret
    /\ run' = [run EXCEPT ![r].pc = "returned"]
    /\ same' = (at_by = r)
    /\ status' = [q \in StatusCallers |->
                     IF status[q].pc = "read_count"
                     THEN [status[q] EXCEPT
                              !.match = (status[q].src = r /\ status[q].live),
                              !.live = (status[q].src # r /\ status[q].live)]
                     ELSE status[q]]
    /\ UNCHANGED <<storageVars, job_lock, job_running, last_run_at, handler, last_exit,
                   extVars, at_by>>

\* run_once has left by return or by an exception
RunReturned(r) == run[r].pc = "returned"
RunRaised(r) == run[r].pc = "raised" \/ (run[r].pc = "upsert" /\ ucall[r].pc = "raised")
RunActive(r) == run[r].pc # "idle"

-----------------------------------------------------------------------------
(* run_once_async.                                                         *)

\* with self._job_lock:
AsyncAcquire(h) ==
    /\ handler[h].pc = "idle"
    /\ calls[h] < MaxAsyncCalls
    /\ job_lock = "free"
    /\ job_lock' = h
    /\ calls' = [calls EXCEPT ![h] = @ + 1]
    /\ handler' = [handler EXCEPT ![h] = [pc |-> "locked", ret |-> "none"]]
    /\ UNCHANGED <<db, txn, clock, ucall, search_out, last_applied,
                   job_running, last_run_at, last_result_count, run, last_exit,
                   extVars, snapVars>>

JobNeverRunning == FALSE
JobOrRunInProgress == job_running \/ \E r \in Runners : RunActive(r)
\* if self._job_running:
JobAlreadyRunning == job_running

\* ... return False (the with block releases the lock)
AsyncTest(h) ==
    /\ handler[h].pc = "locked"
    /\ IF JobAlreadyRunning
       THEN /\ handler' = [handler EXCEPT ![h] = [pc |-> "idle", ret |-> "False"]]
            /\ job_lock' = "free"
       ELSE /\ handler' = [handler EXCEPT ![h].pc = "claim"]
            /\ UNCHANGED job_lock
    /\ UNCHANGED <<storageVars, job_running, last_run_at, last_result_count, run,
                   last_exit, extVars, snapVars>>

\* self._job_running = True, and the with block ends
AsyncClaim(h) ==
    /\ handler[h].pc = "claim"
    /\ job_running' = TRUE
    /\ job_lock' = "free"
    /\ handler' = [handler EXCEPT ![h].pc = "spawn"]
    /\ UNCHANGED <<storageVars, last_run_at, last_result_count, run, last_exit,
                   extVars, snapVars>>

\* threading.Thread(target=_job, daemon=True).start(); return True
AsyncSpawn(h) ==
    /\ handler[h].pc = "spawn"
    /\ \E j \in Jobs :
          /\ run[j].pc = "idle"
          /\ \A k \in Jobs : run[k].pc = "idle" => JobRank(j) <= JobRank(k)
          /\ run' = [run EXCEPT ![j].pc = "start"]
    /\ handler' = [handler EXCEPT ![h] = [pc |-> "idle", ret |-> "True"]]
    /\ UNCHANGED <<storageVars, job_lock, job_running, last_run_at, last_result_count,
                   last_exit, extVars, snapVars>>

ReleasesOnReturnOnly(raised) == ~raised
\* try: self.run_once()  finally: ...  -- the release runs on both exits
Releases(raised) == TRUE

\* _job after run_once has left: with self._job_lock: self._job_running = False;
\* the thread ends
JobFinally(j) ==
    /\ RunReturned(j) \/ RunRaised(j)
    /\ job_lock = "free"
    /\ job_running' = IF Releases(RunRaised(j)) THEN FALSE ELSE job_running
    /\ last_exit' = IF RunRaised(j) THEN "raised" ELSE "returned"
    /\ run' = [run EXCEPT ![j] = NoRun]
    /\ ucall' = [ucall EXCEPT ![j] = NoCall]
    /\ UNCHANGED <<db, txn, clock, calls, search_out, last_applied,
                   job_lock, last_run_at, last_result_count, handler,
                   extVars, snapVars>>

-----------------------------------------------------------------------------
(* start() and _run_loop.  A loop thread is "none" (no such Thread object), *)
(* "created" (constructed, not started), alive at "check" (the while test), *)
(* "run" (inside run_once), "sleep" (the test of the sleeping loop) or      *)
(* "slice" (inside time.sleep(step)), and "ended".                          *)

\* Thread.is_alive()
IsAlive(t) == loop[t].pc \in {"check", "run", "sleep", "slice"}

LoopRank(t) == IF t = "p1" THEN 1 ELSE 2

\* a Thread object nothing refers to any more and that does not run
FreeThread(t) == thread # t /\ loop[t].pc \in {"none", "created", "ended"}

\* if self.thread and self.thread.is_alive(): return
StartTest(a) ==
    /\ starter[a].pc = "idle"
    /\ starter' = [starter EXCEPT ![a] =
                      IF thread # "none" /\ IsAlive(thread)
                      THEN [pc |-> "idle", ret |-> "noop"]
                      ELSE [pc |-> "clear", ret |-> "none"]]
    /\ UNCHANGED <<storageVars, runVars, snapVars, cron_expr, interval, stop_event,
                   thread, loop, sync, fetch_in, fetch_out,
                   extensions, instances, getter>>

\* self.stop_event.clear()
StartClear(a) ==
    /\ starter[a].pc = "clear"
    /\ stop_event' = FALSE
    /\ starter' = [starter EXCEPT ![a].pc = "create"]
    /\ UNCHANGED <<storageVars, runVars, snapVars, cron_expr, interval, thread, loop,
                   sync, fetch_in, fetch_out, extensions, instances, getter>>

\* self.thread = threading.Thread(target=self._run_loop, daemon=True)
StartCreate(a) ==
    /\ starter[a].pc = "create"
    /\ \E t \in LoopThreads :
          /\ FreeThread(t)
          /\ \A u \in LoopThreads : FreeThread(u) => LoopRank(t) <= LoopRank(u)
          /\ loop' = [loop EXCEPT ![t] = [NoLoop EXCEPT !.pc = "created"]]
          /\ thread' = t
    /\ starter' = [starter EXCEPT ![a].pc = "launch"]
    /\ UNCHANGED <<storageVars, runVars, snapVars, cron_expr, interval, stop_event,
                   sync, fetch_in, fetch_out, extensions, instances, getter>>

\* self.thread.start(): the Thread self.thread names now; starting a Thread a
\* second time raises RuntimeError
StartLaunch(a) ==
    /\ starter[a].pc = "launch"
    /\ IF loop[thread].pc = "created"
       THEN /\ loop' = [loop EXCEPT ![thread].pc = "check"]
            /\ starter' = [starter EXCEPT ![a] = [pc |-> "idle", ret |-> "started"]]
       ELSE /\ starter' = [starter EXCEPT ![a] = [pc |-> "idle", ret |-> "raised"]]
            /\ UNCHANGED loop
    /\ UNCHANGED <<storageVars, runVars, snapVars, cron_expr, interval, stop_event,
                   thread, sync, fetch_in, fetch_out,
                   extensions, instances, getter>>

\* stop_event.set(), by whoever holds the Scheduler (no method of it does)
SignalStop ==
    /\ ~stop_event
    /\ stop_event' = TRUE
    /\ UNCHANGED <<storageVars, runVars, snapVars, cron_expr, interval, thread, loop,
                   starter, sync, fetch_in, fetch_out,
                   extensions, instances, getter>>

\* while not self.stop_event.is_set(): ... self.run_once() is entered
LoopCheck(t) ==
    /\ loop[t].pc = "check"
    /\ IF stop_event
       THEN /\ loop' = [loop EXCEPT ![t].pc = "ended"]
            /\ UNCHANGED run
       ELSE /\ loop' = [loop EXCEPT ![t].pc = "run"]
            /\ run' = [run EXCEPT ![t].pc = "start"]
    /\ UNCHANGED <<storageVars, job_lock, job_running, last_run_at, last_result_count,
                   handler, last_exit, snapVars, cron_expr, interval, stop_event,
                   thread, starter, sync, fetch_in, fetch_out,
                   extensions, instances, getter>>

LoopCatchesNothing(exc) == FALSE
\* except Exception: pass -- what run_once raises (a storage or database
\* error) is an Exception
LoopCatches(exc) == exc = "Exception"

\* run_once has left: by return, or by an exception that the except clause
\* swallows; slept = 0
LoopAfterRun(t) ==
    /\ loop[t].pc = "run"
    /\ RunReturned(t) \/ RunRaised(t)
    /\ loop' = [loop EXCEPT ![t] =
                  IF RunRaised(t) /\ ~LoopCatches("Exception")
                  THEN [pc |-> "ended", slept |-> 0, after |-> "raised"]
                  ELSE [pc |-> "sleep", slept |-> 0,
                        after |-> IF RunRaised(t) THEN "raised" ELSE "returned"]]
    /\ run' = [run EXCEPT ![t] = NoRun]
    /\ ucall' = [ucall EXCEPT ![t] = NoCall]
    /\ UNCHANGED <<db, txn, clock, calls, search_out, last_applied,
                   job_lock, job_running, last_run_at, last_result_count, handler,
                   last_exit, snapVars, cron_expr, interval, stop_event, thread,
                   starter, sync, fetch_in, fetch_out,
                   extensions, instances, getter>>

\* while slept < self.interval and not self.stop_event.is_set(): sleep a slice
\* of at most 5 seconds -- the whole sleep, which a set stop_event ends at once
LoopSleep(t) ==
    /\ loop[t].pc = "sleep"
    /\ loop' = [loop EXCEPT ![t].pc = "check",
                            ![t].slept = IF stop_event THEN 0
                                         ELSE SleepTotal(interval.value)]
    /\ UNCHANGED <<storageVars, runVars, snapVars, cron_expr, interval, stop_event,
                   thread, starter, sync, fetch_in, fetch_out,
                   extensions, instances, getter>>

\* the same loop, one step per slice.
\* while slept < self.interval and not self.stop_event.is_set():
\*     step = min(5, self.interval - slept); time.sleep(step) is entered
SleepSlice(t) ==
    /\ loop[t].pc = "sleep"
    /\ loop' = [loop EXCEPT ![t].pc =
                  IF loop[t].slept < interval.value /\ ~stop_event
                  THEN "slice" ELSE "check"]
    /\ UNCHANGED <<storageVars, runVars, snapVars, cron_expr, interval, stop_event,
                   thread, starter, sync, fetch_in, fetch_out,
                   extensions, instances, getter>>

\* time.sleep(step) returns; slept += step
SleepWake(t) ==
    /\ loop[t].pc = "slice"
    /\ loop' = [loop EXCEPT ![t].pc = "sleep",
                            ![t].slept = @ + Min2(5, interval.value - @)]
    /\ UNCHANGED <<storageVars, runVars, snapVars, cron_expr, interval, stop_event,
                   thread, starter, sync, fetch_in, fetch_out,
                   extensions, instances, getter>>

-----------------------------------------------------------------------------
(* trigger_crawl with sync=1: run_once on the request's own thread.        *)

\* ran = scheduler.run_once()
SyncCall(c) ==
    /\ sync[c].pc = "idle"
    /\ run[c].pc = "idle"
    /\ sync' = [sync EXCEPT ![c] = [pc |-> "running", result |-> "none", items |-> 0]]
    /\ run' = [run EXCEPT ![c].pc = "start"]
    /\ UNCHANGED <<storageVars, job_lock, job_running, last_run_at, last_result_count,
                   handler, last_exit, snapVars, cron_expr, interval, stop_event,
                   thread, loop, starter, fetch_in, fetch_out,
                   extensions, instances, getter>>

SyncOutcomeSwallowed(raised) == "ok"
\* nothing around the call catches: an exception of run_once leaves the handler
SyncOutcome(raised) == IF raised THEN "raised" ELSE "ok"

\* run_once has left: the response {"triggered": True, "items": ran, ...}, or
\* the exception
SyncExit(c) ==
    /\ sync[c].pc = "running"
    /\ RunReturned(c) \/ RunRaised(c)
    /\ sync' = [sync EXCEPT ![c] =
                  [pc |-> "idle", result |-> SyncOutcome(RunRaised(c)),
                   items |-> IF RunRaised(c) THEN 0 ELSE ucall[c].ret]]
    /\ run' = [run EXCEPT ![c] = NoRun]
    /\ ucall' = [ucall EXCEPT ![c] = NoCall]
    /\ UNCHANGED <<db, txn, clock, calls, search_out, last_applied,
                   job_lock, job_running, last_run_at, last_result_count, handler,
                   last_exit, snapVars, cron_expr, interval, stop_event, thread, loop,
                   starter, fetch_in, fetch_out, extensions, instances, getter>>

-----------------------------------------------------------------------------
(* status(): the dict is built field by field, without a lock.  The call   *)
(* frame keeps, as history, which run wrote the last_run_at it read (src,  *)
(* live: that run has not written its count yet) and whether the count now *)
(* in last_result_count was written by that same run (match).              *)

\* "last_run_at": self.last_run_at
StatusReadAt(q) ==
    /\ status[q].pc \in {"idle", "done"}
    /\ status' = [status EXCEPT ![q] =
                    [pc |-> "read_count", at |-> last_run_at, count |-> 0,
                     src |-> at_by,
                     live |-> at_by # "none" /\ run[at_by].pc = "set_count",
                     match |-> same]]
    /\ UNCHANGED <<storageVars, runVars, extVars, at_by, same>>

\* "last_result_count": self.last_result_count, and the two flags after it
StatusReadCount(q) ==
    /\ status[q].pc = "read_count"
    /\ status' = [status EXCEPT ![q].pc = "done", ![q].count = last_result_count]
    /\ UNCHANGED <<storageVars, runVars, extVars, at_by, same>>

-----------------------------------------------------------------------------
(* get_scheduler(app), one step per access of app.extensions, with          *)
(* START_SCHEDULER at its default "1".  Each Scheduler it constructs is an  *)
(* instance of its own; start() on an instance is taken as one step here    *)
(* (it starts the loop unless the instance's loop is alive).                *)

\* if "literature_scheduler" not in app.extensions:
GetTest(g) ==
    /\ getter[g].pc = "idle"
    /\ getter' = [getter EXCEPT ![g].pc = IF extensions = 0 THEN "assign" ELSE "return"]
    /\ UNCHANGED <<storageVars, runVars, snapVars, cron_expr, interval, stop_event,
                   thread, loop, starter, sync, fetch_in, fetch_out, extensions,
                   instances>>

\* app.extensions["literature_scheduler"] = Scheduler(app)
GetAssign(g) ==
    /\ getter[g].pc = "assign"
    /\ instances' = Append(instances, FALSE)
    /\ extensions' = Len(instances) + 1
    /\ getter' = [getter EXCEPT ![g].pc = "start"]
    /\ UNCHANGED <<storageVars, runVars, snapVars, cron_expr, interval, stop_event,
                   thread, loop, starter, sync, fetch_in, fetch_out>>

\* app.extensions["literature_scheduler"].start(): on the instance the
\* registry holds now
GetStart(g) ==
    /\ getter[g].pc = "start"
    /\ instances' = [instances EXCEPT ![extensions] = TRUE]
    /\ getter' = [getter EXCEPT ![g].pc = "return"]
    /\ UNCHANGED <<storageVars, runVars, snapVars, cron_expr, interval, stop_event,
                   thread, loop, starter, sync, fetch_in, fetch_out, extensions>>

\* return cast(Scheduler, app.extensions["literature_scheduler"])
GetReturn(g) ==
    /\ getter[g].pc = "return"
    /\ getter' = [getter EXCEPT ![g] = [pc |-> "done", ret |-> extensions]]
    /\ UNCHANGED <<storageVars, runVars, snapVars, cron_expr, interval, stop_event,
                   thread, loop, starter, sync, fetch_in, fetch_out, extensions,
                   instances>>

-----------------------------------------------------------------------------
(* The crawlers (app/crawler/nature.py, nature_rss.py) as functions of what *)
(* the network answers.  The answer to the request of a listing page or of  *)
(* a feed is None when session.get or raise_for_status raises, else         *)
(* Some(els), els being the elements the selector finds, each of a kind:    *)
(*   "card"     a link with text and href, detail page and date readable    *)
(*   "nolink"   no link (nature) / no <link> (rss)                          *)
(*   "notext"   a link without text (nature) / no <title> (rss)             *)
(*   "nodetail" the request of the detail page fails                        *)
(*   "baddate"  the date does not parse                                     *)
(*   "badlink"  (rss) a link that urlparse refuses with ValueError          *)
(* fetcher is "search" (NatureCrawler.fetch_search), "latest"               *)
(* (NatureCrawler.fetch_latest) or "rss" (NatureRSSCrawler.fetch_latest).   *)

\* seq[:n] for n >= 0
Take(seq, n) == SubSeq(seq, 1, Min2(Len(seq), n))

\* the url of the i-th element
UrlAt(i) == IF i = 1 THEN "u1" ELSE IF i = 2 THEN "u2" ELSE "u3"

\* _fetch_detail: (abstract, doi), (None, None) when the request fails
FetchDetail(kind) ==
    IF kind = "nodetail" THEN [abstract |-> None, doi |-> None]
    ELSE [abstract |-> Some(TxtCell), doi |-> Some("10.1/a")]

\* the Paper a fetcher appends for element i; the date is parsed inside
\* try/except and is None when parsing raises; fetch_latest of NatureCrawler
\* sets no extras
CrawledPaper(fetcher, kind, i) ==
    Paper(Some(IF kind = "notext" THEN <<>> ELSE TxtSolar), Some(UrlAt(i)),
          FetchDetail(kind).doi,
          Some(IF fetcher = "rss" THEN "nature-portfolio" ELSE "nature"),
          IF kind = "baddate" THEN None ELSE Some(Date(2024, 2, 1)), None,
          FetchDetail(kind).abstract,
          Some(IF fetcher = "rss" THEN "www.nature.com" ELSE "Nature"),
          IF fetcher = "latest" THEN None ELSE Some(<< <<TxtQ, TxtS>> >>))

\* the loop over the elements of one page or feed, from element i on.
\* nature: an element without link is skipped, every other one is appended.
\* rss: an item without title or link is not appended; an exception
\* (urlparse) ends the feed, what was appended to all_papers stays.
RECURSIVE ItemLoop(_, _, _)
ItemLoop(fetcher, els, i) ==
    IF i > Len(els) THEN <<>>
    ELSE IF fetcher = "rss" /\ els[i] = "badlink" THEN <<>>
    ELSE IF els[i] = "nolink" \/ (fetcher = "rss" /\ els[i] = "notext")
         THEN ItemLoop(fetcher, els, i + 1)
    ELSE <<CrawledPaper(fetcher, els[i], i)>> \o ItemLoop(fetcher, els, i + 1)

\* NatureCrawler.fetch_search(query, max_items) and .fetch_latest(max_items):
\* the request of the page is outside any try
NatureFetch(fetcher, page, max_items) ==
    IF page = None THEN Raised
    ELSE Returned(ItemLoop(fetcher, Take(Val(page), max_items), 1))

\* for feed in self.feeds: try ... except Exception: continue
RECURSIVE RssCollect(_, _)
RssCollect(feeds, max_items) ==
    IF feeds = <<>> THEN <<>>
    ELSE (IF feeds[1] = None THEN <<>>
          ELSE ItemLoop("rss", Take(Val(feeds[1]), max_items), 1))
         \o RssCollect(Tail2(feeds), max_items)

\* NatureRSSCrawler.fetch_latest(max_items), feeds being the answers of
\* self.feeds in order
RssFetchLatest(feeds, max_items) == Returned(RssCollect(feeds, max_items))

\* the fetch calls of the model: the fetcher, max_items, and the answers of
\* the listing page (nature) or of up to two feeds (rss)
FetchInputs ==
    LET kinds == {"card", "nolink", "notext", "nodetail", "baddate"}
        answers(ks) == {None} \cup {Some(els) : els \in SeqsUpTo(ks, MaxCards)}
    IN {[fetcher |-> f, max_items |-> m, answers |-> <<a>>] :
            f \in {"search", "latest"}, m \in 0..MaxCards, a \in answers(kinds)}
       \cup {[fetcher |-> "rss", max_items |-> m, answers |-> fs] :
            m \in 0..MaxCards,
            fs \in SeqsUpTo(answers(kinds \cup {"badlink"}), 2)}

\* a crawler is about to be called, on a Scheduler that is otherwise untouched
InitFetch ==
    /\ InitStorage
    /\ InitFields
    /\ cron_expr = Some(TxtDefaultCron)
    /\ interval = CronToIntervalSeconds(Some(TxtDefaultCron))
    /\ fetch_in \in {Some(x) : x \in FetchInputs}
    /\ fetch_out = None

\* one call of the fetcher f
CallFetch(f) ==
    /\ fetch_out = None
    /\ Val(fetch_in).fetcher = f
    /\ fetch_out' = Some(IF f = "rss"
                         THEN RssFetchLatest(Val(fetch_in).answers, Val(fetch_in).max_items)
                         ELSE NatureFetch(f, Val(fetch_in).answers[1], Val(fetch_in).max_items))
    /\ UNCHANGED <<storageVars, runVars, snapVars, cron_expr, interval, stop_event,
                   thread, loop, starter, sync, fetch_in,
                   extensions, instances, getter>>

-----------------------------------------------------------------------------
(* Scheduler.__init__ under any configured schedule expression.            *)

\* before self.interval is set, SCHEDULER_CRON being any of the inputs
InitInterval ==
    /\ InitStorage
    /\ InitFields
    /\ fetch_in = None
    /\ fetch_out = None
    /\ cron_expr \in CronInputs
    /\ interval = [kind |-> "unset", value |-> 0]

\* self.interval = self._cron_to_interval_seconds(app.config.get(...))
Construct ==
    /\ interval.kind = "unset"
    /\ interval' = CronToIntervalSeconds(cron_expr)
    /\ UNCHANGED <<storageVars, runVars, snapVars, cron_expr, stop_event, thread, loop,
                   starter, sync, fetch_in, fetch_out,
                   extensions, instances, getter>>

-----------------------------------------------------------------------------
(* Specifications.                                                         *)

\* the storage API under one client and its batches
NextStorage ==
    \/ Tick /\ UNCHANGED schedVars
    \/ ClientUpsert("w1") /\ UNCHANGED schedVars
    \/ ClientDone("w1") /\ UNCHANGED schedVars
    \/ UpsertExecute("w1") /\ UNCHANGED schedVars
    \/ UpsertCommit("w1") /\ UNCHANGED schedVars
    \/ UpsertFault("w1") /\ UNCHANGED schedVars

SpecStorage == Init /\ [][NextStorage]_vars

\* concurrent start() calls, the loops they start and a stop signal
NextPeriodic ==
    \/ \E a \in Starters : StartTest(a)
    \/ \E a \in Starters : StartClear(a)
    \/ \E a \in Starters : StartCreate(a)
    \/ \E a \in Starters : StartLaunch(a)
    \/ SignalStop
    \/ \E t \in LoopThreads : LoopCheck(t)
    \/ \E t \in LoopThreads : RunFetch(t)
    \/ \E t \in LoopThreads : UpsertExecute(t) /\ UNCHANGED schedVars
    \/ \E t \in LoopThreads : UpsertCommit(t) /\ UNCHANGED schedVars
    \/ \E t \in LoopThreads : UpsertBusy(t) /\ UNCHANGED schedVars
    \/ \E t \in LoopThreads : UpsertFault(t) /\ UNCHANGED schedVars
    \/ \E t \in LoopThreads : RunSetLastRunAt(t)
    \/ \E t \in LoopThreads : RunSetCount(t)
    \/ \E t \in LoopThreads : LoopAfterRun(t)
    \/ \E t \in LoopThreads : LoopSleep(t)

SpecPeriodic == Init /\ [][NextPeriodic]_vars

\* a Scheduler constructed under SCHEDULER_CRON = "*/1 * * * *"
InitStop ==
    /\ InitStorage
    /\ InitFields
    /\ cron_expr = Some(<<42, 47, 49, 32, 42, 32, 42, 32, 42, 32, 42>>)
    /\ interval = CronToIntervalSeconds(cron_expr)
    /\ fetch_in = None
    /\ fetch_out = None

\* the loop slice by slice under a stop signal and the callers of start(); the
\* search of each run fails and FEEDS is empty
NextStop ==
    \/ \E a \in Starters : StartTest(a)
    \/ \E a \in Starters : StartClear(a)
    \/ \E a \in Starters : StartCreate(a)
    \/ \E a \in Starters : StartLaunch(a)
    \/ SignalStop
    \/ \E t \in LoopThreads : LoopCheck(t)
    \/ \E t \in LoopThreads : RunFetchFrom(t, {Raised}, {FALSE})
    \/ \E t \in LoopThreads : RunSetLastRunAt(t)
    \/ \E t \in LoopThreads : RunSetCount(t)
    \/ \E t \in LoopThreads : LoopAfterRun(t)
    \/ \E t \in LoopThreads : SleepSlice(t)
    \/ \E t \in LoopThreads : SleepWake(t)

SpecStop == InitStop /\ [][NextStop]_vars

\* the periodic loop as get_scheduler starts it: one caller of start()
NextLoop ==
    \/ StartTest("a1")
    \/ StartClear("a1")
    \/ StartCreate("a1")
    \/ StartLaunch("a1")
    \/ SignalStop
    \/ \E t \in LoopThreads : LoopCheck(t)
    \/ \E t \in LoopThreads : RunFetch(t)
    \/ \E t \in LoopThreads : UpsertExecute(t) /\ UNCHANGED schedVars
    \/ \E t \in LoopThreads : UpsertCommit(t) /\ UNCHANGED schedVars
    \/ \E t \in LoopThreads : UpsertFault(t) /\ UNCHANGED schedVars
    \/ \E t \in LoopThreads : RunSetLastRunAt(t)
    \/ \E t \in LoopThreads : RunSetCount(t)
    \/ \E t \in LoopThreads : LoopAfterRun(t)
    \/ \E t \in LoopThreads : LoopSleep(t)

\* A started loop thread keeps running: run_once ends (every network call
\* carries a timeout) and time.sleep returns.  Calls of start(), the stop signal
\* and storage faults are not forced.
FairLoop ==
    /\ Init
    /\ [][NextLoop]_vars
    /\ \A t \in LoopThreads :
          WF_vars(\/ LoopCheck(t)
                  \/ RunFetch(t)
                  \/ UpsertExecute(t) /\ UNCHANGED schedVars
                  \/ UpsertCommit(t) /\ UNCHANGED schedVars
                  \/ RunSetLastRunAt(t)
                  \/ RunSetCount(t)
                  \/ LoopAfterRun(t)
                  \/ LoopSleep(t))

\* an on-demand trigger next to the synchronous trigger and the periodic loop
NextOverlap ==
    \/ AsyncAcquire("h1")
    \/ AsyncTest("h1")
    \/ AsyncClaim("h1")
    \/ AsyncSpawn("h1")
    \/ \E j \in Jobs : JobFinally(j)
    \/ \E c \in SyncCallers : SyncCall(c)
    \/ \E c \in SyncCallers : SyncExit(c)
    \/ StartTest("a1")
    \/ StartClear("a1")
    \/ StartCreate("a1")
    \/ StartLaunch("a1")
    \/ \E t \in LoopThreads : LoopCheck(t)
    \/ \E t \in LoopThreads : LoopAfterRun(t)
    \/ \E t \in LoopThreads : LoopSleep(t)
    \/ \E r \in Runners : RunFetchFrom(r, {Raised, Returned(<<PaperA1>>)}, {FALSE})
    \/ \E r \in Runners : UpsertExecute(r) /\ UNCHANGED schedVars
    \/ \E r \in Runners : UpsertCommit(r) /\ UNCHANGED schedVars
    \/ \E r \in Runners : UpsertBusy(r) /\ UNCHANGED schedVars
    \/ \E r \in Runners : RunSetLastRunAt(r)
    \/ \E r \in Runners : RunSetCount(r)

SpecOverlap == Init /\ [][NextOverlap]_vars

\* status queries next to the runs of a synchronous trigger
NextStatus ==
    \/ Tick /\ UNCHANGED schedVars
    \/ \E c \in SyncCallers : SyncCall(c)
    \/ \E c \in SyncCallers : SyncExit(c)
    \/ \E c \in SyncCallers : RunFetch(c)
    \/ \E c \in SyncCallers : UpsertExecute(c) /\ UNCHANGED schedVars
    \/ \E c \in SyncCallers : UpsertCommit(c) /\ UNCHANGED schedVars
    \/ \E c \in SyncCallers : UpsertFault(c) /\ UNCHANGED schedVars
    \/ \E c \in SyncCallers : RunSetLastRunAt(c)
    \/ \E c \in SyncCallers : RunSetCount(c)
    \/ \E q \in StatusCallers : StatusReadAt(q)
    \/ \E q \in StatusCallers : StatusReadCount(q)

SpecStatus == Init /\ [][NextStatus]_vars

\* batches with unusable records (no title, an empty title) among usable ones
NextValidation ==
    \/ ClientUpsert("w4") /\ UNCHANGED schedVars
    \/ ClientDone("w4") /\ UNCHANGED schedVars
    \/ UpsertExecute("w4") /\ UNCHANGED schedVars
    \/ UpsertCommit("w4") /\ UNCHANGED schedVars

SpecValidation == Init /\ [][NextValidation]_vars

\* concurrent requests that call get_scheduler, each once
NextRegistry ==
    \/ \E g \in Getters : GetTest(g)
    \/ \E g \in Getters : GetAssign(g)
    \/ \E g \in Getters : GetStart(g)
    \/ \E g \in Getters : GetReturn(g)

SpecRegistry == Init /\ [][NextRegistry]_vars

\* one fetch call of a crawler under every answer of the network
NextFetch == \E f \in {"search", "latest", "rss"} : CallFetch(f)

SpecFetch == InitFetch /\ [][NextFetch]_vars

\* the interval derivation over the schedule expressions
NextInterval == Construct

SpecInterval == InitInterval /\ [][NextInterval]_vars

\* concurrent writers on their own connections
Writers == {"w2", "w3"}
NextWriters ==
    \/ \E c \in Writers : ClientUpsert(c) /\ UNCHANGED schedVars
    \/ \E c \in Writers : ClientDone(c) /\ UNCHANGED schedVars
    \/ \E c \in Writers : UpsertExecute(c) /\ UNCHANGED schedVars
    \/ \E c \in Writers : UpsertCommit(c) /\ UNCHANGED schedVars
    \/ \E c \in Writers : UpsertBusy(c) /\ UNCHANGED schedVars
    \/ \E c \in Writers : UpsertFault(c) /\ UNCHANGED schedVars

SpecWriters == Init /\ [][NextWriters]_vars

\* a reader that lists without filters, next to a writer whose batches
\* succeed, fail at a record or fail on a storage fault
NextRead ==
    \/ ClientUpsert("w1") /\ UNCHANGED schedVars
    \/ ClientDone("w1") /\ UNCHANGED schedVars
    \/ UpsertExecute("w1") /\ UNCHANGED schedVars
    \/ UpsertCommit("w1") /\ UNCHANGED schedVars
    \/ UpsertFault("w1") /\ UNCHANGED schedVars
    \/ SearchFrom({<<>>}, {None}) /\ UNCHANGED schedVars

SpecRead == Init /\ [][NextRead]_vars

\* search_papers over every store content a writer builds
NextSearch ==
    \/ ClientUpsert("w3") /\ UNCHANGED schedVars
    \/ ClientDone("w3") /\ UNCHANGED schedVars
    \/ UpsertExecute("w3") /\ UNCHANGED schedVars
    \/ UpsertCommit("w3") /\ UNCHANGED schedVars
    \/ ClientSearch /\ UNCHANGED schedVars

SpecSearch == Init /\ [][NextSearch]_vars

\* the scheduler under concurrent on-demand triggers
Next ==
    \/ \E h \in Handlers : AsyncAcquire(h)
    \/ \E h \in Handlers : AsyncTest(h)
    \/ \E h \in Handlers : AsyncClaim(h)
    \/ \E h \in Handlers : AsyncSpawn(h)
    \/ \E j \in Jobs : RunFetch(j)
    \/ \E j \in Jobs : UpsertExecute(j) /\ UNCHANGED schedVars
    \/ \E j \in Jobs : UpsertCommit(j) /\ UNCHANGED schedVars
    \/ \E j \in Jobs : UpsertFault(j) /\ UNCHANGED schedVars
    \/ \E j \in Jobs : RunSetLastRunAt(j)
    \/ \E j \in Jobs : RunSetCount(j)
    \/ \E j \in Jobs : JobFinally(j)

Spec == Init /\ [][Next]_vars

\* A started thread keeps running: run_once ends (every network call carries a
\* timeout), a handler inside run_once_async goes on, and the job's acquire of
\* _job_lock is not starved by the handlers that take it in turn.  Requests
\* arriving and storage faults are not forced.
JobProgress(j) ==
    \/ RunFetch(j)
    \/ UpsertExecute(j) /\ UNCHANGED schedVars
    \/ UpsertCommit(j) /\ UNCHANGED schedVars
    \/ RunSetLastRunAt(j)
    \/ RunSetCount(j)
HandlerProgress(h) == AsyncTest(h) \/ AsyncClaim(h) \/ AsyncSpawn(h)

Fairness ==
    /\ \A j \in Jobs : WF_vars(JobProgress(j)) /\ SF_vars(JobFinally(j))
    /\ \A h \in Handlers : WF_vars(HandlerProgress(h))

FairSpec == Spec /\ Fairness

-----------------------------------------------------------------------------
(* Properties.                                                             *)

ActiveJobs == {j \in Jobs : RunActive(j)}

\* C1: at most one on-demand job executes at any time, and a run_once_async
\* call that tests the flag while it is held returns False, starts no run and
\* leaves the scheduler's state (flag, run state, running jobs) as it was.
C1_SingleFlight ==
    [][ /\ Cardinality(ActiveJobs') <= 1
        /\ \A h \in Handlers :
              (handler[h].pc = "locked" /\ job_running /\ handler'[h] # handler[h])
              => /\ handler'[h] = [pc |-> "idle", ret |-> "False"]
                 /\ UNCHANGED <<job_running, last_run_at, last_result_count, run, ucall, db>>
      ]_vars

\* a second trigger was turned down while the first one's job was running
C1_Witness ==
    \E h \in Handlers :
        /\ handler[h].ret = "False"
        /\ job_running
        /\ Cardinality(ActiveJobs) = 1

\* no on-demand job exists or is about to be started
NoJobInFlight ==
    /\ ActiveJobs = {}
    /\ \A h \in Handlers : handler[h].pc \notin {"claim", "spawn"}

\* C2: every started on-demand job eventually releases the job-running flag,
\* whether its run returned or raised, and a run_once_async call that tests
\* the flag once no job is in flight goes on to start one (returns True).
C2_FlagReleased ==
    /\ \A j \in Jobs : RunActive(j) ~> ~job_running
    /\ [][ \A h \in Handlers :
             (handler[h].pc = "locked" /\ NoJobInFlight /\ handler'[h] # handler[h])
             => handler'[h].pc = "claim" ]_vars

\* a job's run raised, the flag was released, and a later call passed the test
C2_Witness ==
    /\ last_exit = "raised"
    /\ ~job_running
    /\ ActiveJobs = {}
    /\ \E h \in Handlers : handler[h].pc = "claim"

\* the stored row of url u carries the column values bound for paper p
StoredAs(rows, p) ==
    \E r \in rows :
        LET v == Params(p)
        IN /\ r.url = v.url /\ r.title = v.title /\ r.doi = v.doi
           /\ r.source = v.source /\ r.published_at = v.published_at
           /\ r.authors = v.authors /\ r.abstract = v.abstract
           /\ r.journal = v.journal /\ r.extras = v.extras

\* C3: the store holds at most one record per url, and as many records as
\* there are distinct urls that committed upserts applied.
C3_OneRecordPerUrl ==
    /\ \A r1, r2 \in db.rows : r1.url = r2.url => r1 = r2
    /\ Cardinality(db.rows) = Cardinality({u \in Urls : last_applied[u] # <<>>})

\* two writers each upserted the same record and one row is stored
C3_Witness ==
    /\ ucall["w2"].pc = "returned" /\ ucall["w2"].batch = <<PaperA1>>
    /\ ucall["w3"].pc = "returned" /\ ucall["w3"].batch = <<PaperA1>>
    /\ Cardinality(db.rows) = 1

\* C4: for every url, the stored record's title, doi, source, published_at,
\* authors, abstract, journal and extras are those bound for the record applied
\* last with that url, absent (null) fields included.
C4_LastWriteWins ==
    \A u \in Urls :
        last_applied[u] # <<>> => StoredAs(db.rows, last_applied[u][Len(last_applied[u])])

\* u1 was stored with every field present, then overwritten by a record
\* without doi, date, authors, abstract, journal and extras
C4_Witness ==
    /\ last_applied[Some("u1")] = <<PaperA1, PaperA2>>
    /\ \E r \in db.rows : r.url = Some("u1") /\ IsNone(r.doi) /\ IsNone(r.abstract)

\* the urls of the batch that the step commits, if it is a commit
CommittedUrls ==
    UNION {{ucall[p].batch[i].url : i \in 1..Len(ucall[p].batch)} :
           p \in {q \in Procs : ucall[q].pc = "exec" /\ ucall'[q].pc = "returned"}}

\* C5: an upsert of a url that is already stored keeps the stored record's
\* url, row id and created_at, and leaves every record of another url as it is.
C5_UpsertFrame ==
    [][ \A r \in db.rows :
          /\ \E r2 \in db'.rows :
                r2.url = r.url /\ r2.id = r.id /\ r2.created_at = r.created_at
          /\ r.url \notin CommittedUrls => r \in db'.rows ]_vars

\* a stored url was overwritten at a later time, next to a record of another url
C5_Witness ==
    /\ Len(last_applied[Some("u1")]) = 2
    /\ \E r \in db.rows : r.url = Some("u1") /\ r.created_at < clock
    /\ \E r \in db.rows : r.url # Some("u1")

\* C6: when two records of one batch share a url, the stored record after the
\* call has the values of the one that comes later in the input.
C6_LaterInBatchWins ==
    [][ \A p \in Procs :
          (ucall[p].pc = "exec" /\ ucall'[p].pc = "returned")
          => \A i \in 1..Len(ucall[p].batch) :
                (\A j \in 1..Len(ucall[p].batch) :
                    ucall[p].batch[j].url = ucall[p].batch[i].url => j <= i)
                => StoredAs(db'.rows, ucall[p].batch[i]) ]_vars

\* one batch held two records of u1; the later one is stored
C6_Witness ==
    /\ ucall["w1"].pc = "returned"
    /\ ucall["w1"].batch = <<PaperA2, PaperA1>>
    /\ StoredAs(db.rows, PaperA1)

\* C7: upsert_papers returns the number of records of its input, 0 for an
\* empty input, duplicates counted each time, whatever rows it changed.
C7_ReturnsInputLength ==
    \A p \in Procs : ucall[p].pc = "returned" => ucall[p].ret = Len(ucall[p].batch)

\* a batch of two records of one url returned 2 and left one row
C7_Witness ==
    /\ ucall["w1"].pc = "returned"
    /\ ucall["w1"].ret = 2
    /\ Cardinality(db.rows) = 1

\* the date a stored published_at text was formatted from
DatesOf(col) == {Val(p.published_at) : p \in {q \in PaperPool :
                    TruthyObj(q.published_at) /\ Params(q).published_at = col}}
DateLeq(a, b) ==
    \/ a.year < b.year
    \/ a.year = b.year /\ a.month < b.month
    \/ a.year = b.year /\ a.month = b.month /\ a.day <= b.day

\* C8: search_papers without filters returns the records by published_at
\* descending, every record without published_at after every record with one.
C8_NullsLastDescending ==
    (search_out # None /\ Val(search_out).query = <<>> /\ IsNone(Val(search_out).source))
    => LET items == Val(search_out).res.items
       IN \A i, j \in 1..Len(items) :
             i < j =>
                /\ IsNone(items[i].published_at) => IsNone(items[j].published_at)
                /\ (~IsNone(items[i].published_at) /\ ~IsNone(items[j].published_at))
                   => \A di \in DatesOf(items[i].published_at),
                         dj \in DatesOf(items[j].published_at) : DateLeq(dj, di)

\* three records came back: the later date, the earlier date (inserted first),
\* the undated one
C8_Witness ==
    /\ search_out # None
    /\ Val(search_out).query = <<>> /\ IsNone(Val(search_out).source)
    /\ LET items == Val(search_out).res.items
       IN /\ Len(items) = 3
          /\ items[1].url = Some("u2") /\ items[2].url = Some("u1")
          /\ IsNone(items[3].published_at)
          /\ items[3].id > items[1].id

\* C9: with a source filter given, every returned record has exactly that
\* source tag, for every filter value that is present.
C9_SourceFilterExact ==
    (search_out # None /\ ~IsNone(Val(search_out).source))
    => LET items == Val(search_out).res.items
       IN \A i \in 1..Len(items) : items[i].source = Val(search_out).source

\* the records one fetcher call contributed
Contributed(o) == IF o.kind = "returned" THEN o.papers ELSE <<>>

\* C10: a fetcher that raises or returns nothing does not abort the run: the
\* other fetcher's records are passed to upsert_papers and persisted, and
\* run_once returns their count.
C10_FetcherFaultIsolated ==
    \A r \in Runners :
        (run[r].pc \in {"upsert", "set_count", "returned"} /\ ucall[r].pc = "returned")
        => /\ Contributed(run[r].nat) = <<>>
              => /\ ucall[r].batch = Contributed(run[r].rss)
                 /\ ucall[r].ret = Len(Contributed(run[r].rss))
                 /\ \A i \in 1..Len(run[r].rss.papers) :
                       StoredAs(db.rows, run[r].rss.papers[i])
           /\ Contributed(run[r].rss) = <<>>
              => /\ ucall[r].batch = Contributed(run[r].nat)
                 /\ ucall[r].ret = Len(Contributed(run[r].nat))
                 /\ \A i \in 1..Len(run[r].nat.papers) :
                       StoredAs(db.rows, run[r].nat.papers[i])

\* the first fetcher raised, the second returned a record, the run returned 1
C10_Witness ==
    \E r \in Runners :
        /\ run[r].pc = "returned"
        /\ run[r].nat.kind = "raised"
        /\ run[r].rss.kind = "returned" /\ Len(run[r].rss.papers) = 1
        /\ ucall[r].ret = 1
        /\ last_result_count = 1

\* " * * * *"
TxtStars == <<32, 42, 32, 42, 32, 42, 32, 42>>

\* the expression reads "*/N * * * *" with N in decimal digits
EveryNMinutes(e) ==
    /\ ~IsNone(e)
    /\ Len(Val(e)) > 10
    /\ SubSeq(Val(e), 1, 2) = <<42, 47>>
    /\ SubSeq(Val(e), Len(Val(e)) - 7, Len(Val(e))) = TxtStars
    /\ \A i \in 3..(Len(Val(e)) - 8) : Val(e)[i] \in 48..57
MinutesOf(e) == DigitsValue(SubSeq(Val(e), 3, Len(Val(e)) - 8), 0)

\* C11: the derived interval is 60*N seconds for an "every N minutes"
\* expression and 1800 seconds for every other expression (empty, missing,
\* malformed), and deriving it never raises.
C11_IntervalDerivation ==
    interval.kind # "unset"
    => interval = ReturnedValue(IF EveryNMinutes(cron_expr)
                                THEN 60 * MinutesOf(cron_expr) ELSE 1800)

\* C12: start() while the loop thread is alive is a no-op, and at most one
\* periodic loop thread is alive at any time, however start() calls interleave
\* (a start() that returned as a no-op left a loop thread behind it, and there
\* is never a second one).
C12_OneLoop ==
    /\ Cardinality({t \in LoopThreads : IsAlive(t)}) <= 1
    /\ \A a \in Starters : starter[a].ret = "noop" => thread # "none"

\* C13: a run that raises inside the periodic loop does not end the loop: the
\* thread goes on to sleep, and unless a stop is signalled it sleeps for the
\* interval and then executes another run.
C13_LoopSurvives ==
    /\ [][ \A t \in LoopThreads :
             /\ (loop[t].pc = "run" /\ RunRaised(t) /\ loop'[t] # loop[t])
                => loop'[t].pc = "sleep"
             /\ (loop[t].pc = "check" /\ loop[t].after # "none" /\ loop'[t].pc = "run")
                => loop[t].slept = interval.value ]_vars
    /\ \A t \in LoopThreads :
          (loop[t].pc = "sleep" /\ loop[t].after = "raised")
          ~> (stop_event \/ (loop[t].pc = "run" /\ run[t].pc = "start"))

\* after a run that raised, the loop slept for 1800 seconds and is in its next run
C13_Witness ==
    \E t \in LoopThreads :
        /\ loop[t].pc = "run" /\ run[t].pc = "start"
        /\ loop[t].after = "raised"
        /\ loop[t].slept = 1800
        /\ ~stop_event

\* the contexts that execute run_once without run_once_async
Bypassers == SyncCallers \cup LoopThreads

\* C14: neither a synchronous run_once nor the periodic loop touches the
\* job-running flag (or its lock): every step of theirs leaves it as it is, so
\* they run next to an on-demand job; and a run_once_async call that tests the
\* flag while no on-demand job is in flight goes on to start one (returns
\* True), whatever synchronous or periodic runs are in progress.
C14_FlagBypassed ==
    [][ /\ \A r \in Bypassers :
              (run'[r] # run[r] \/ ucall'[r] # ucall[r])
              => UNCHANGED <<job_running, job_lock>>
        /\ (sync' # sync \/ loop' # loop) => UNCHANGED <<job_running, job_lock>>
        /\ \A h \in Handlers :
              (handler[h].pc = "locked" /\ NoJobInFlight /\ handler'[h] # handler[h])
              => handler'[h].pc = "claim"
        /\ \A h \in Handlers :
              (handler[h].pc = "claim" /\ handler'[h] # handler[h])
              => handler'[h].pc = "spawn" /\ job_running'
        /\ \A h \in Handlers :
              (handler[h].pc = "spawn" /\ handler'[h] # handler[h])
              => handler'[h].ret = "True" ]_vars

\* a trigger passed the flag test while a synchronous and a periodic run were
\* both inside upsert_papers
C14_Witness ==
    /\ \E h \in Handlers : handler[h].pc = "claim"
    /\ ~job_running
    /\ \E c \in SyncCallers : run[c].pc = "upsert"
    /\ \E t \in LoopThreads : run[t].pc = "upsert"

\* C15: every status() result is a consistent snapshot: the last_run_at and
\* the last_result_count it holds were written by one and the same run (or are
\* both still as __init__ set them), under any interleaving with runs.
C15_StatusSnapshot ==
    \A q \in StatusCallers : status[q].pc = "done" => status[q].match

\* C16: when upsert_papers (or anything before it) raises in run_once, the
\* exception reaches the synchronous caller and that run writes neither
\* last_run_at nor last_result_count: the two fields are written only by runs
\* whose upsert_papers returned, so they stay those of the last run that did.
C16_FaultLeavesRunState ==
    [][ /\ \A c \in SyncCallers :
              (sync[c].pc = "running" /\ RunRaised(c) /\ sync'[c] # sync[c])
              => sync'[c].result = "raised"
        /\ \A r \in Runners :
              (RunRaised(r)' /\ run[r].pc \in {"start", "upsert"})
              => UNCHANGED <<last_run_at, last_result_count>>
        /\ \A r \in Runners :
              (RunRaised(r) /\ (run'[r] # run[r] \/ ucall'[r] # ucall[r]))
              => /\ UNCHANGED <<last_run_at, last_result_count>>
                 /\ run'[r] = NoRun
        /\ (last_run_at' # last_run_at \/ last_result_count' # last_result_count)
           => \E r \in Runners :
                 /\ ucall[r].pc = "returned"
                 /\ run[r].pc \in {"upsert", "set_count"}
                 /\ run'[r] # run[r] ]_vars

\* a run stored one record at time 0; a later synchronous run raised, its
\* caller got the exception, and status() at time 1 reports the run of time 0
C16_Witness ==
    /\ \E c \in SyncCallers : sync[c].pc = "idle" /\ sync[c].result = "raised"
    /\ clock = 1
    /\ last_run_at = Some(0) /\ last_result_count = 1
    /\ \E q \in StatusCallers :
          /\ status[q].pc = "done"
          /\ status[q].at = Some(0) /\ status[q].count = 1

\* title and url are both there and not empty
Usable(p) ==
    /\ ~IsNone(p.title) /\ Val(p.title) # <<>>
    /\ ~IsNone(p.url) /\ Val(p.url) # ""
\* title or url is missing
Malformed(p) == IsNone(p.title) \/ IsNone(p.url)

\* C17: every stored record has a non-empty title and a non-empty url, and a
\* record without one is rejected before storage is touched: no transaction
\* is open for a batch that holds such a record.
C17_NoEmptyTitleOrUrl ==
    /\ \A r \in db.rows : Usable(r)
    /\ \A p \in Procs :
          txn.owner = p => \A i \in 1..Len(ucall[p].batch) : Usable(ucall[p].batch[i])

\* C18: a call of upsert_papers whose batch holds a malformed record (title or
\* url missing) among valid ones returns, and afterwards each valid record of
\* the batch that is the last one of its url is stored.
C18_MalformedSkipped ==
    \A p \in Procs :
        (/\ ucall[p].pc \in {"returned", "raised"}
         /\ \E i \in 1..Len(ucall[p].batch) : Malformed(ucall[p].batch[i])
         /\ \E i \in 1..Len(ucall[p].batch) : Usable(ucall[p].batch[i]))
        => /\ ucall[p].pc = "returned"
           /\ \A i \in 1..Len(ucall[p].batch) :
                 (/\ Usable(ucall[p].batch[i])
                  /\ \A j \in (i + 1)..Len(ucall[p].batch) :
                        ucall[p].batch[j].url # ucall[p].batch[i].url)
                 => StoredAs(db.rows, ucall[p].batch[i])

\* C19: every fetch operation (fetch_search and fetch_latest of NatureCrawler,
\* fetch_latest of NatureRSSCrawler) absorbs the faults of an item and of the
\* whole source and returns a sequence: it never raises to its caller.
C19_FetchNeverRaises ==
    fetch_out # None => Val(fetch_out).kind = "returned"

\* C20: a fetch call with bound max_items returns at most max_items items in
\* total, for every fetcher and any number of feeds.
C20_MaxItemsBound ==
    (fetch_out # None /\ Val(fetch_out).kind = "returned")
    => Len(Val(fetch_out).papers) <= Val(fetch_in).max_items

\* C21: once the stop event is set, a loop that is alive keeps it set until
\* it has ended, starts no further run and no further sleep slice (a slice
\* lasts at most 5 seconds), and goes from its current slice or run to its
\* end.
C21_StopEndsLoop ==
    [][\A t \in LoopThreads :
          /\ (stop_event /\ IsAlive(t)) => (stop_event' \/ ~IsAlive(t)')
          /\ (stop_event /\ loop[t].pc # "run") => loop'[t].pc # "run"
          /\ (stop_event /\ loop[t].pc # "slice") => loop'[t].pc # "slice"
          /\ (loop[t].pc = "slice" /\ loop'[t].pc = "sleep")
                => loop'[t].slept - loop[t].slept \in 1..5
          /\ (stop_event /\ loop[t].pc = "sleep") => loop'[t].pc \in {"sleep", "check"}
          /\ (stop_event /\ loop[t].pc = "check") => loop'[t].pc \in {"check", "ended"}
      ]_vars

\* C24: for every schedule expression the interval __init__ derives is a
\* strictly positive number of seconds (so that the sleeping loop of _run_loop,
\* which goes on while slept < interval, sleeps after every run).
C24_IntervalPositive ==
    interval.kind = "returned" => interval.value > 0

\* C22: what a reader gets from search_papers (no filters) while upsert_papers
\* runs is the store as the committed batches left it, each of them applied as
\* a whole: per url the record that the committed batches applied last, and
\* nothing of a batch that is half applied or that failed part-way.
C22_NoPartialBatch ==
    [][(/\ search_out' # search_out
        /\ search_out' # None
        /\ Val(search_out').query = <<>>
        /\ IsNone(Val(search_out').source))
       => LET items == Val(search_out').res.items
              seen == {items[i] : i \in 1..Len(items)}
          IN \A u \in Urls :
                IF last_applied[u] = <<>>
                THEN \A r \in seen : r.url # u
                ELSE /\ Cardinality({r \in seen : r.url = u}) = 1
                     /\ StoredAs(seen, last_applied[u][Len(last_applied[u])])
      ]_vars

\* a reader ran while the writer's transaction held one executed record of a
\* batch of two
C22_Witness ==
    /\ search_out # None
    /\ Val(search_out).dirty
    /\ Val(search_out).query = <<>> /\ IsNone(Val(search_out).source)
    /\ Len(ucall["w1"].batch) = 2
    /\ ucall["w1"].pc = "exec" /\ ucall["w1"].idx = 2

\* C23: of two records search_papers returns with the same published_at (or
\* both without one) the one inserted later comes first.  The order of
\* insertion is the order of the row ids: a record of a new url gets an id
\* above every stored one, and a re-upsert of a stored url keeps its id.
C23_TieBreakByInsertion ==
    /\ [](search_out # None
          => LET items == Val(search_out).res.items
             IN \A i, j \in 1..Len(items) :
                   (i < j /\ items[i].published_at = items[j].published_at)
                   => items[i].id > items[j].id)
    /\ [][\A r2 \in db'.rows :
            IF \E r \in db.rows : r.url = r2.url
            THEN \E r \in db.rows : r.url = r2.url /\ r.id = r2.id
            ELSE \A r \in db.rows : r2.id > r.id]_vars

\* two undated records came back; the second, inserted first, had been
\* upserted again after its insertion
C23_Witness ==
    /\ search_out # None
    /\ Val(search_out).query = <<>> /\ IsNone(Val(search_out).source)
    /\ LET items == Val(search_out).res.items
       IN /\ Len(items) = 2
          /\ IsNone(items[1].published_at) /\ IsNone(items[2].published_at)
          /\ items[1].url = Some("u3") /\ items[2].url = Some("u1")
          /\ items[1].id > items[2].id
    /\ last_applied[Some("u1")] = <<PaperA1, PaperA2>>

\* C25: under any interleaving of get_scheduler calls for one application
\* exactly one Scheduler is constructed, every call returns that instance, and
\* only one periodic loop is started.
C25_OneScheduler ==
    /\ Len(instances) <= 1
    /\ \A g, h \in Getters :
          (getter[g].pc = "done" /\ getter[h].pc = "done") => getter[g].ret = getter[h].ret
    /\ Cardinality({i \in 1..Len(instances) : instances[i]}) <= 1

====
